---- MODULE Spec2Model ----
(***************************************************************************)
(* A model of the processed_data subgraph service: the relational store,   *)
(* the five relationship fetchers (Loader::load), the request handler that *)
(* attaches a fresh set of DataLoader instances to every request, and the  *)
(* key-batching behaviour of DataLoader::load_one as instantiated by       *)
(* DataLoader::new(loader, tokio::spawn): no cache storage, a batching     *)
(* delay started by the first key of a batch, one oneshot sender per       *)
(* waiting caller.                                                         *)
(***************************************************************************)
EXTENDS Naturals, Sequences, FiniteSets, TLC

VARIABLES
    db,         \* the relational store: one sequence of rows per table
    fetched,    \* FetchSpec: the last direct call of a fetcher and its result
    reqState,   \* per HTTP request: "new", "active", "done", "rejected", ...
    ctx,        \* per request: the data attached to the async_graphql::Request
    heap,       \* DataLoader instances by address
    tasks,      \* resolver invocations (the callers of load_one)
    fetches,    \* per DataLoader: the batches handed to Loader::load, in order
    entities,   \* per request: the DataCollection stubs the entity resolver returned
    urls,       \* the resolutions of download_url, with the presigner calls of each
    main        \* the process: its command line, its position in main, what it did

vars == <<db, fetched, reqState, ctx, heap, tasks, fetches, entities, urls, main>>

(***************************************************************************)
(* Bounds of the model.                                                    *)
(***************************************************************************)
MaxKey == 2        \* parent keys are 1..MaxKey
MaxRows == 3       \* rows of the table a fetcher filters
MaxRelated == 2    \* rows of each table joined to it
MaxTasks == 3      \* resolver invocations over all requests
MaxRequests == 2   \* HTTP requests handled
MaxUrls == 2       \* resolutions of download_url
MaxServed == 2     \* requests the listener serves

Keys == 1..MaxKey

(***************************************************************************)
(* Option<T>: None is the empty sequence, Some(x) the one-element one.     *)
(***************************************************************************)
None == <<>>
Some(x) == <<x>>
IsSome(o) == o # None
Unwrap(o) == o[1]
OptionOf(S) == {None} \cup {Some(x) : x \in S}

Range(s) == {s[i] : i \in DOMAIN s}
SeqsUpTo(S, n) == UNION {[1..m -> S] : m \in 0..n}

(***************************************************************************)
(* HashMap<K, V>: a function; insert overwrites the entry of an equal key. *)
(***************************************************************************)
EmptyMap == <<>>
\* An insert that keeps the value a key already has
Insert_keeps_first(m, k, v) ==
    IF k \in DOMAIN m THEN m ELSE [x \in (DOMAIN m) \cup {k} |-> IF x = k THEN v ELSE m[x]]

\* HashMap::insert
Insert(m, k, v) == [x \in (DOMAIN m) \cup {k} |-> IF x = k THEN v ELSE m[x]]
\* A grouping that keeps one row per key: results.insert(k, vec![v])
EntryPush_overwrites(m, k, v) == Insert(m, k, <<v>>)

\* results.entry(k).or_insert_with(Vec::new).push(v)
EntryPush(m, k, v) ==
    [x \in (DOMAIN m) \cup {k} |->
        IF x = k THEN (IF k \in DOMAIN m THEN Append(m[k], v) ELSE <<v>>)
        ELSE m[x]]

(***************************************************************************)
(* StatisticsType and its stored counterpart.                              *)
(***************************************************************************)
StatisticsType ==
    {"StatisticsType::Overall", "StatisticsType::InnerShell", "StatisticsType::OuterShell"}

\* impl ToString for StatisticsType
to_string(t) ==
    CASE t = "StatisticsType::Overall" -> "overall"
      [] t = "StatisticsType::InnerShell" -> "innershell"
      [] t = "StatisticsType::OuterShell" -> "outershell"

\* The literals the store keeps in AutoProcScalingStatistics.scalingStatisticsType.
StoredLiterals == {"overall", "innerShell", "outerShell"}

\* The generated active enum reads a stored literal into its variant.
ScalingStatisticsType_from_literal(s) ==
    CASE s = "overall" -> "ScalingStatisticsType::Overall"
      [] s = "innerShell" -> "ScalingStatisticsType::InnerShell"
      [] s = "outerShell" -> "ScalingStatisticsType::OuterShell"

\* A conversion that crosses the two shells
StatisticsType_from_crossed(v) ==
    CASE v = "ScalingStatisticsType::Overall" -> "StatisticsType::Overall"
      [] v = "ScalingStatisticsType::InnerShell" -> "StatisticsType::OuterShell"
      [] v = "ScalingStatisticsType::OuterShell" -> "StatisticsType::InnerShell"

\* sea_orm_active_enums::ScalingStatisticsType
ScalingStatisticsType ==
    {"ScalingStatisticsType::Overall", "ScalingStatisticsType::InnerShell",
     "ScalingStatisticsType::OuterShell"}

\* impl From<ScalingStatisticsType> for StatisticsType
StatisticsType_from(v) ==
    CASE v = "ScalingStatisticsType::Overall" -> "StatisticsType::Overall"
      [] v = "ScalingStatisticsType::InnerShell" -> "StatisticsType::InnerShell"
      [] v = "ScalingStatisticsType::OuterShell" -> "StatisticsType::OuterShell"

\* The store compares strings under its case-insensitive collation.
Fold(s) ==
    CASE s = "innerShell" -> "innershell"
      [] s = "outerShell" -> "outershell"
      [] OTHER -> s
CollateEq(a, b) == Fold(a) = Fold(b)

(***************************************************************************)
(* The store.  A table is the sequence of its rows in the order the store  *)
(* returns them; a primary key is the row's position.                      *)
(***************************************************************************)
\* fileFullPath: a string, as the sequence of its separators and names
FilePath(i) ==
    IF i = 1 THEN <<"/", "data", "/", "run1", "/", "img.h5">>
    ELSE <<"data", "/", "run1", "/", "img.h5">>

FileAttachmentRows(n) ==
    {[i \in 1..Len(p) |-> [data_collection_file_attachment_id |-> i,
                           data_collection_id |-> p[i],
                           file_full_path |-> FilePath(i)]] : p \in SeqsUpTo(Keys, n)}

ProcessingJobRows(n) ==
    {[i \in 1..Len(p) |-> [processing_job_id |-> i, data_collection_id |-> p[i]]]
        : p \in SeqsUpTo(OptionOf(Keys), n)}

ProcessingJobParameterRows(n) ==
    {[i \in 1..Len(p) |-> [processing_job_parameter_id |-> i, processing_job_id |-> p[i]]]
        : p \in SeqsUpTo(OptionOf(1..2), n)}

AutoProcIntegrationRows(n) ==
    {[i \in 1..Len(p) |-> [auto_proc_integration_id |-> i,
                           data_collection_id |-> p[i][1],
                           auto_proc_program_id |-> p[i][2]]]
        : p \in SeqsUpTo(Keys \X OptionOf({1}), n)}

AutoProcProgramRows(n) ==
    {[i \in 1..m |-> [auto_proc_program_id |-> i]] : m \in 0..n}

AutoProcRows(programs, n) ==
    {[i \in 1..Len(p) |-> [auto_proc_id |-> i, auto_proc_program_id |-> p[i]]]
        : p \in SeqsUpTo(OptionOf(programs), n)}

AutoProcScalingRows(n) ==
    {[i \in 1..Len(p) |-> [auto_proc_scaling_id |-> i, auto_proc_id |-> p[i]]]
        : p \in SeqsUpTo(OptionOf(1..2), n)}

AutoProcScalingStatisticsRows(n) ==
    {[i \in 1..Len(p) |-> [auto_proc_scaling_statistics_id |-> i,
                           auto_proc_scaling_id |-> p[i][1],
                           scaling_statistics_type |-> p[i][2]]]
        : p \in SeqsUpTo(OptionOf(Keys) \X StoredLiterals, n)}

EmptyStore ==
    [data_collection_file_attachment |-> <<>>,
     processing_job |-> <<>>,
     processing_job_parameter |-> <<>>,
     auto_proc_integration |-> <<>>,
     auto_proc_program |-> <<>>,
     auto_proc |-> <<>>,
     auto_proc_scaling |-> <<>>,
     auto_proc_scaling_statistics |-> <<>>]

TableNames == DOMAIN EmptyStore

\* The tables a fetcher's query reads.
TablesOf(kind) ==
    CASE kind = "ProcessedDataLoader" -> {"data_collection_file_attachment"}
      [] kind = "ProcessJobDataLoader" -> {"processing_job", "processing_job_parameter"}
      [] kind = "AutoProcIntegrationDataLoader" ->
            {"auto_proc_integration", "auto_proc_program", "auto_proc", "auto_proc_scaling"}
      [] kind = "AutoProcessingDataLoader" -> {"auto_proc", "auto_proc_scaling"}
      [] kind = "AutoProcScalingDataLoader" -> {"auto_proc_scaling_statistics"}

\* The stores of FetchSpec for a fetcher: the tables it reads are filled, the others empty.
StoresOf(kind) ==
    CASE kind = "ProcessedDataLoader" ->
            {[EmptyStore EXCEPT !.data_collection_file_attachment = t]
                : t \in FileAttachmentRows(MaxRows)}
      [] kind = "ProcessJobDataLoader" ->
            {[EmptyStore EXCEPT !.processing_job = j, !.processing_job_parameter = p]
                : j \in ProcessingJobRows(MaxRows), p \in ProcessingJobParameterRows(1)}
      [] kind = "AutoProcIntegrationDataLoader" ->
            {[EmptyStore EXCEPT !.auto_proc_integration = i, !.auto_proc_program = g,
                                !.auto_proc = a, !.auto_proc_scaling = s]
                : i \in AutoProcIntegrationRows(MaxRelated), g \in AutoProcProgramRows(1),
                  a \in AutoProcRows({1}, MaxRelated), s \in AutoProcScalingRows(1)}
      [] kind = "AutoProcessingDataLoader" ->
            {[EmptyStore EXCEPT !.auto_proc = a, !.auto_proc_scaling = s]
                : a \in AutoProcRows(Keys, MaxRelated), s \in AutoProcScalingRows(MaxRelated)}
      [] kind = "AutoProcScalingDataLoader" ->
            {[EmptyStore EXCEPT !.auto_proc_scaling_statistics = t]
                : t \in AutoProcScalingStatisticsRows(MaxRelated)}

(***************************************************************************)
(* The graphql entities built from the store's rows (entities.rs).         *)
(***************************************************************************)
DataProcessing_from(value) ==
    [id |-> value.data_collection_file_attachment_id,
     file_full_path |-> value.file_full_path]

ProcessingJob_from(value) ==
    [processing_job_id |-> value.processing_job_id,
     data_collection_id |-> value.data_collection_id]

ProcessingJobParameter_from(value) ==
    [processing_job_parameter_id |-> value.processing_job_parameter_id,
     processing_job_id |-> value.processing_job_id]

AutoProc_from(value) ==
    [auto_proc_id |-> value.auto_proc_id,
     auto_proc_program_id |-> value.auto_proc_program_id]

AutoProcScaling_from(value) ==
    [auto_proc_scaling_id |-> value.auto_proc_scaling_id,
     auto_proc_id |-> value.auto_proc_id]

AutoProcScalingStatics_from(value) ==
    [auto_proc_scaling_id |-> value.auto_proc_scaling_id,
     auto_proc_scaling_statistics_id |-> value.auto_proc_scaling_statistics_id,
     scaling_statistics_type |->
        StatisticsType_from(ScalingStatisticsType_from_literal(value.scaling_statistics_type))]

\* Option::map
OptionMap(o, F(_)) == IF IsSome(o) THEN Some(F(Unwrap(o))) ELSE None

(***************************************************************************)
(* What the store answers to the fetchers' queries.                        *)
(***************************************************************************)
RECURSIVE Concat(_)
Concat(ss) == IF ss = <<>> THEN <<>> ELSE Head(ss) \o Concat(Tail(ss))
FlatMap(s, F(_)) == Concat([i \in 1..Len(s) |-> F(s[i])])

\* left LEFT JOIN right ON On(l, r): every left row, once per matching right row,
\* or once with no right row.
LeftJoin(left, right, On(_, _), Pair(_, _)) ==
    FlatMap(left, LAMBDA l :
        LET m == SelectSeq(right, LAMBDA r : On(l, r))
        IN  IF m = <<>> THEN << Pair(l, None) >>
            ELSE [i \in 1..Len(m) |-> Pair(l, Some(m[i]))])

\* column IN (keys) on a column that is never NULL
IsIn(col, keys) == col \in keys
\* A filter that lets the rows with a NULL column through
IsInOpt_null_matches(col, keys) == ~IsSome(col) \/ Unwrap(col) \in keys

\* column IN (keys) on a nullable column: NULL is in no list
IsInOpt(col, keys) == IsSome(col) /\ Unwrap(col) \in keys
\* left.col = right.col on nullable columns: NULL equals nothing
EqOpt(a, b) == IsSome(a) /\ IsSome(b) /\ Unwrap(a) = Unwrap(b)

\* data_collection_file_attachment::Entity::find().filter(DataCollectionId.is_in(keys))
ProcessedDataQuery(store, keys) ==
    SelectSeq(store.data_collection_file_attachment,
              LAMBDA r : IsIn(r.data_collection_id, keys))

\* processing_job::Entity::find().find_also_related(processing_job_parameter::Entity)
\*     .filter(processing_job::Column::DataCollectionId.is_in(keys))
ProcessJobQuery(store, keys) ==
    LeftJoin(SelectSeq(store.processing_job, LAMBDA j : IsInOpt(j.data_collection_id, keys)),
             store.processing_job_parameter,
             LAMBDA j, p : EqOpt(Some(j.processing_job_id), p.processing_job_id),
             LAMBDA j, p : <<j, p>>)

\* AutoProcIntegration LEFT JOIN AutoProcProgram LEFT JOIN AutoProc
\*     LEFT JOIN AutoProcScaling WHERE dataCollectionId IN (keys)
AutoProcIntegrationQuery(store, keys) ==
    LET withProgram ==
            LeftJoin(SelectSeq(store.auto_proc_integration,
                               LAMBDA i : IsIn(i.data_collection_id, keys)),
                     store.auto_proc_program,
                     LAMBDA i, g : EqOpt(i.auto_proc_program_id, Some(g.auto_proc_program_id)),
                     LAMBDA i, g : [integration |-> i, program |-> g])
        withAutoProc ==
            LeftJoin(withProgram, store.auto_proc,
                     LAMBDA l, a : IsSome(l.program)
                                   /\ EqOpt(a.auto_proc_program_id,
                                            Some(Unwrap(l.program).auto_proc_program_id)),
                     LAMBDA l, a : [integration |-> l.integration, program |-> l.program,
                                    auto_proc |-> a])
    IN  LeftJoin(withAutoProc, store.auto_proc_scaling,
                 LAMBDA l, s : IsSome(l.auto_proc)
                               /\ EqOpt(s.auto_proc_id, Some(Unwrap(l.auto_proc).auto_proc_id)),
                 LAMBDA l, s : [integration |-> l.integration, program |-> l.program,
                                auto_proc |-> l.auto_proc, auto_proc_scaling |-> s])

\* auto_proc::Entity::find().filter(AutoProcProgramId.is_in(keys))
\*     .find_also_related(auto_proc_scaling::Entity)
AutoProcessingQuery(store, keys) ==
    LeftJoin(SelectSeq(store.auto_proc, LAMBDA a : IsInOpt(a.auto_proc_program_id, keys)),
             store.auto_proc_scaling,
             LAMBDA a, s : EqOpt(Some(a.auto_proc_id), s.auto_proc_id),
             LAMBDA a, s : <<a, s>>)

\* A filter on the two columns one by one: id IN (ids) AND type IN (types)
InTuples_per_column(row, keys) ==
    /\ \E k \in keys : EqOpt(row.auto_proc_scaling_id, Some(k[1]))
    /\ \E k \in keys : CollateEq(row.scaling_statistics_type, to_string(k[2]))

\* (autoProcScalingId, scalingStatisticsType) IN ((id, stat_type.to_string()), ...)
InTuples(row, keys) ==
    \E k \in keys :
        /\ EqOpt(row.auto_proc_scaling_id, Some(k[1]))
        /\ CollateEq(row.scaling_statistics_type, to_string(k[2]))

AutoProcScalingQuery(store, keys) ==
    SelectSeq(store.auto_proc_scaling_statistics, LAMBDA r : InTuples(r, keys))

(***************************************************************************)
(* Loader::load of the five fetchers.  q is what the store does with the   *)
(* query: "ok", or the DbErr that `.await?` returns.                       *)
(***************************************************************************)
DbErrs == {"DbErr::Conn", "DbErr::Query"}
QueryOutcomes == {"ok"} \cup DbErrs

Ok(m) == [tag |-> "Ok", map |-> m]
Err(e) == [tag |-> "Err", err |-> e]
Panic == [tag |-> "Panic"]

RECURSIVE ProcessedDataGroup(_, _)
ProcessedDataGroup(records, results) ==
    IF records = <<>> THEN results
    ELSE LET record == Head(records)
         IN  ProcessedDataGroup(Tail(records),
                                Insert(results, record.data_collection_id,
                                       DataProcessing_from(record)))

ProcessedDataLoader_load(store, keys, q) ==
    IF q # "ok" THEN Err(q)
    ELSE Ok(ProcessedDataGroup(ProcessedDataQuery(store, keys), EmptyMap))

\* .map(|(job, parameter)| ProcessJob { .. })
ProcessJob_of(pair) ==
    [processing_job |-> ProcessingJob_from(pair[1]),
     parameters |-> OptionMap(pair[2], ProcessingJobParameter_from)]

RECURSIVE ProcessJobGroup(_, _)
ProcessJobGroup(records, results) ==
    IF records = <<>> THEN Ok(results)
    ELSE LET record == Head(records)
         IN  IF ~IsSome(record.processing_job.data_collection_id) THEN Panic
             ELSE ProcessJobGroup(Tail(records),
                                  EntryPush(results,
                                            Unwrap(record.processing_job.data_collection_id),
                                            record))

ProcessJobDataLoader_load(store, keys, q) ==
    IF q # "ok" THEN Err(q)
    ELSE LET rows == ProcessJobQuery(store, keys)
         IN  ProcessJobGroup([i \in 1..Len(rows) |-> ProcessJob_of(rows[i])], EmptyMap)

\* .map(|record| AP { .. }): every column is read with try_get(..).unwrap()
AP_of(row) ==
    [auto_proc_integration_id |-> row.integration.auto_proc_integration_id,
     data_collection_id |-> row.integration.data_collection_id,
     auto_proc_program_id |-> row.integration.auto_proc_program_id,
     auto_proc_id |-> IF IsSome(row.auto_proc)
                      THEN Some(Unwrap(row.auto_proc).auto_proc_id) ELSE None,
     auto_proc_scaling_id |-> IF IsSome(row.auto_proc_scaling)
                              THEN Some(Unwrap(row.auto_proc_scaling).auto_proc_scaling_id)
                              ELSE None]

RECURSIVE AutoProcIntegrationGroup(_, _)
AutoProcIntegrationGroup(records, results) ==
    IF records = <<>> THEN results
    ELSE LET record == Head(records)
         IN  AutoProcIntegrationGroup(Tail(records),
                                      EntryPush(results, record.data_collection_id, record))

\* decodes: whether try_get reads every column of the returned rows
AutoProcIntegrationDataLoader_load(store, keys, q, decodes) ==
    IF q # "ok" THEN Err(q)
    ELSE LET rows == AutoProcIntegrationQuery(store, keys)
         IN  IF rows # <<>> /\ ~decodes THEN Panic
             ELSE Ok(AutoProcIntegrationGroup([i \in 1..Len(rows) |-> AP_of(rows[i])],
                                              EmptyMap))

\* .map(|(auto_proc, scaling)| AutoProcess { .. })
AutoProcess_of(pair) ==
    [auto_proc |-> AutoProc_from(pair[1]),
     auto_proc_scaling |-> OptionMap(pair[2], AutoProcScaling_from)]

RECURSIVE AutoProcessingGroup(_, _)
AutoProcessingGroup(records, results) ==
    IF records = <<>> THEN Ok(results)
    ELSE LET record == Head(records)
         IN  IF ~IsSome(record.auto_proc.auto_proc_program_id) THEN Panic
             ELSE AutoProcessingGroup(Tail(records),
                                      Insert(results,
                                             Unwrap(record.auto_proc.auto_proc_program_id),
                                             record))

AutoProcessingDataLoader_load(store, keys, q) ==
    IF q # "ok" THEN Err(q)
    ELSE LET rows == AutoProcessingQuery(store, keys)
         IN  AutoProcessingGroup([i \in 1..Len(rows) |-> AutoProcess_of(rows[i])], EmptyMap)

RECURSIVE AutoProcScalingGroup(_, _)
AutoProcScalingGroup(records, results) ==
    IF records = <<>> THEN Ok(results)
    ELSE LET record == Head(records)
         IN  IF ~IsSome(record.auto_proc_scaling_id) THEN Panic
             ELSE AutoProcScalingGroup(
                      Tail(records),
                      Insert(results,
                             << Unwrap(record.auto_proc_scaling_id),
                                StatisticsType_from(ScalingStatisticsType_from_literal(
                                    record.scaling_statistics_type)) >>,
                             AutoProcScalingStatics_from(record)))

AutoProcScalingDataLoader_load(store, keys, q) ==
    IF q # "ok" THEN Err(q)
    ELSE AutoProcScalingGroup(AutoProcScalingQuery(store, keys), EmptyMap)

LoaderKinds ==
    {"ProcessedDataLoader", "ProcessJobDataLoader", "AutoProcIntegrationDataLoader",
     "AutoProcessingDataLoader", "AutoProcScalingDataLoader"}

\* The keys a loader of the kind is asked for: Loader<u32>, Loader<(u32, StatisticsType)>.
KeysOf(kind) ==
    IF kind = "AutoProcScalingDataLoader" THEN Keys \X StatisticsType ELSE Keys

\* The rows the store returns to the kind's query.
QueryOf(kind, store, keys) ==
    CASE kind = "ProcessedDataLoader" -> ProcessedDataQuery(store, keys)
      [] kind = "ProcessJobDataLoader" -> ProcessJobQuery(store, keys)
      [] kind = "AutoProcIntegrationDataLoader" -> AutoProcIntegrationQuery(store, keys)
      [] kind = "AutoProcessingDataLoader" -> AutoProcessingQuery(store, keys)
      [] kind = "AutoProcScalingDataLoader" -> AutoProcScalingQuery(store, keys)

\* <T as Loader<K>>::load, by the loader's type.
Load(kind, store, keys, q, decodes) ==
    CASE kind = "ProcessedDataLoader" -> ProcessedDataLoader_load(store, keys, q)
      [] kind = "ProcessJobDataLoader" -> ProcessJobDataLoader_load(store, keys, q)
      [] kind = "AutoProcIntegrationDataLoader" ->
            AutoProcIntegrationDataLoader_load(store, keys, q, decodes)
      [] kind = "AutoProcessingDataLoader" -> AutoProcessingDataLoader_load(store, keys, q)
      [] kind = "AutoProcScalingDataLoader" -> AutoProcScalingDataLoader_load(store, keys, q)

NoFetch == [kind |-> "none"]

(***************************************************************************)
(* FetchSpec: a fetcher called directly on a store and a key set.          *)
(***************************************************************************)
\* The key sets a fetcher is called with.
KeySetsOf(kind) == {K \in SUBSET KeysOf(kind) : Cardinality(K) <= MaxKey}

FetchInit ==
    /\ \E kind \in LoaderKinds : db \in StoresOf(kind)
    /\ fetched = NoFetch
    /\ reqState = <<>>
    /\ ctx = <<>>
    /\ heap = <<>>
    /\ tasks = <<>>
    /\ fetches = <<>>
    /\ entities = <<>>
    /\ urls = <<>>
    /\ main = <<>>

CallLoad(kind) ==
    /\ fetched = NoFetch
    /\ \A t \in TableNames \ TablesOf(kind) : db[t] = <<>>
    /\ \E keys \in KeySetsOf(kind), q \in QueryOutcomes, decodes \in BOOLEAN :
          /\ kind # "AutoProcIntegrationDataLoader" => decodes
          /\ fetched' = [kind |-> kind, keys |-> keys, q |-> q,
                         records |-> QueryOf(kind, db, keys),
                         result |-> Load(kind, db, keys, q, decodes)]
    /\ UNCHANGED <<db, entities, urls, main, reqState, ctx, heap, tasks, fetches>>

FetchNext == \E kind \in LoaderKinds : CallLoad(kind)

FetchSpec == FetchInit /\ [][FetchNext]_vars

\* The parent key a row of the kind's filtered table carries, as the key type of
\* the kind's loader; None for a NULL parent key.
ParentKeyOf(kind, row) ==
    CASE kind = "ProcessedDataLoader" -> Some(row.data_collection_id)
      [] kind = "ProcessJobDataLoader" -> row.data_collection_id
      [] kind = "AutoProcIntegrationDataLoader" -> Some(row.data_collection_id)
      [] kind = "AutoProcessingDataLoader" -> row.auto_proc_program_id
      [] kind = "AutoProcScalingDataLoader" ->
            IF IsSome(row.auto_proc_scaling_id)
            THEN Some(<< Unwrap(row.auto_proc_scaling_id),
                         StatisticsType_from(ScalingStatisticsType_from_literal(
                             row.scaling_statistics_type)) >>)
            ELSE None

\* The table the kind's query filters by parent key.
FilteredTableOf(kind) ==
    CASE kind = "ProcessedDataLoader" -> "data_collection_file_attachment"
      [] kind = "ProcessJobDataLoader" -> "processing_job"
      [] kind = "AutoProcIntegrationDataLoader" -> "auto_proc_integration"
      [] kind = "AutoProcessingDataLoader" -> "auto_proc"
      [] kind = "AutoProcScalingDataLoader" -> "auto_proc_scaling_statistics"

\* The parent keys that have at least one row in the store.
StoredParents(kind, store) ==
    {Unwrap(ParentKeyOf(kind, store[FilteredTableOf(kind)][i]))
        : i \in {j \in DOMAIN store[FilteredTableOf(kind)]
                    : IsSome(ParentKeyOf(kind, store[FilteredTableOf(kind)][j]))}}

RecordsOf(kind, rows) ==
    IF kind = "ProcessJobDataLoader" THEN [i \in 1..Len(rows) |-> ProcessJob_of(rows[i])]
    ELSE [i \in 1..Len(rows) |-> AP_of(rows[i])]

\* The data_collection_id of an entity of a one-to-many fetcher.
DataCollectionIdOf(kind, record) ==
    IF kind = "ProcessJobDataLoader" THEN Unwrap(record.processing_job.data_collection_id)
    ELSE record.data_collection_id

OneToMany == {"ProcessJobDataLoader", "AutoProcIntegrationDataLoader"}

\* C10: grouping correctness.  The map a one-to-many fetcher returns has one list
\* per data_collection_id among the returned rows, and that list is the returned
\* rows with that data_collection_id, each once, in the order the store returned
\* them.
C10_GroupingCorrect ==
    (fetched # NoFetch /\ fetched.kind \in OneToMany /\ fetched.result.tag = "Ok")
        => LET records == RecordsOf(fetched.kind, fetched.records)
               map == fetched.result.map
           IN  /\ DOMAIN map = {DataCollectionIdOf(fetched.kind, records[i])
                                   : i \in DOMAIN records}
               /\ \A k \in DOMAIN map :
                     map[k] = SelectSeq(records,
                                  LAMBDA r : DataCollectionIdOf(fetched.kind, r) = k)

\* C10's case: the store returned rows of keys 1, 2, 1 in this order, and the list of
\* key 1 holds the first and the third.
C10_Witness ==
    /\ fetched # NoFetch
    /\ fetched.kind = "ProcessJobDataLoader"
    /\ fetched.result.tag = "Ok"
    /\ Len(fetched.records) = 3
    /\ [i \in 1..3 |-> fetched.records[i][1].data_collection_id] = <<Some(1), Some(2), Some(1)>>
    /\ Len(fetched.result.map[1]) = 2
    /\ Len(fetched.result.map[2]) = 1

(***************************************************************************)
(* DataLoader<T>, as DataLoader::new(loader, tokio::spawn) builds it.      *)
(***************************************************************************)
max_batch_size == 1000

\* A DataLoader whose delay task is spawned at construction
DataLoader_new_with_timer(loader, database) ==
    [loader |-> loader,
     database |-> database,
     cache_factory |-> "NoCache",
     cache_storage |-> EmptyMap,
     keys |-> {},
     pending |-> <<>>,
     timers |-> {1},
     ticks |-> 1]

\* DataLoader::new: the cache factory is NoCache, whose storage keeps nothing.
DataLoader_new(loader, database) ==
    [loader |-> loader,
     database |-> database,
     cache_factory |-> "NoCache",
     cache_storage |-> EmptyMap,
     keys |-> {},          \* Requests::keys
     pending |-> <<>>,     \* Requests::pending: (keys, sender)
     timers |-> {},        \* spawned delay tasks that have not fired: their ticks
     ticks |-> 0]          \* delay tasks spawned so far

\* CacheStorage::get
CacheGet(inst, key) ==
    IF key \in DOMAIN inst.cache_storage THEN Some(inst.cache_storage[key]) ELSE None

\* CacheStorage::insert of every entry of a loaded map
CacheInsertAll(inst, values) ==
    IF inst.cache_factory = "NoCache" THEN inst.cache_storage
    ELSE [k \in (DOMAIN inst.cache_storage) \cup (DOMAIN values) |->
             IF k \in DOMAIN values THEN values[k] ELSE inst.cache_storage[k]]

\* load_many's locked section for a key that is not cached: the key joins the
\* pending batch with the caller's sender.
Enqueue(inst, key, sender) ==
    [inst EXCEPT !.keys = @ \cup {key},
                 !.pending = Append(@, [keys |-> {key}, sender |-> sender])]

\* A load_many that spawns a delay task for every key it queues
ActionOf_every_key_starts(inst, prev_count) == "StartFetch"

\* What load_many does once the key is queued; prev_count is keys.len() before.
ActionOf(inst, prev_count) ==
    IF Cardinality(inst.keys) >= max_batch_size THEN "ImmediateLoad"
    ELSE IF inst.keys # {} /\ prev_count = 0 THEN "StartFetch"
    ELSE "Delay"

\* Requests::take
Take(inst) == [inst EXCEPT !.keys = {}, !.pending = <<>>]

\* The batch handed to do_load, whose first step calls Loader::load(&keys).
Batch(inst, tick) ==
    [keys |-> inst.keys, senders |-> inst.pending, tick |-> tick,
     state |-> "loading", result |-> [tag |-> "None"]]

\* A load_one that reports a key without an entry as an error
LoadOne_absent_is_error(result, key) ==
    IF result.tag = "Ok"
    THEN IF key \in DOMAIN result.map THEN [tag |-> "Ok", value |-> Some(result.map[key])]
         ELSE [tag |-> "Err", err |-> "NotFound"]
    ELSE [tag |-> "Err", err |-> result.err]

\* A load_one that turns the batch's failure into "no value" for every key but the first
LoadOne_failure_as_absent(result, key) ==
    IF result.tag = "Ok"
    THEN [tag |-> "Ok",
          value |-> IF key \in DOMAIN result.map THEN Some(result.map[key]) ELSE None]
    ELSE IF key = 1 THEN [tag |-> "Err", err |-> result.err]
    ELSE [tag |-> "Ok", value |-> None]

\* What load_one returns to the caller of `key` once the batch has `result`:
\* the sender is sent the entries of its keys, and load_one removes its key's.
LoadOne(result, key) ==
    IF result.tag = "Ok"
    THEN [tag |-> "Ok",
          value |-> IF key \in DOMAIN result.map THEN Some(result.map[key]) ELSE None]
    ELSE [tag |-> "Err", err |-> result.err]

(***************************************************************************)
(* The request handler and the request's data.                             *)
(***************************************************************************)
Requests == 1..MaxRequests

\* An add_data_loaders that leaves the AutoProcIntegration loader out
DataLoaders_without_auto_proc_integration ==
    << "ProcessedDataLoader", "ProcessJobDataLoader",
       "AutoProcessingDataLoader", "AutoProcScalingDataLoader" >>

\* The loaders add_data_loaders attaches, in its order.
DataLoaders ==
    << "ProcessedDataLoader", "ProcessJobDataLoader", "AutoProcIntegrationDataLoader",
       "AutoProcessingDataLoader", "AutoProcScalingDataLoader" >>

\* Request::data: the data map holds one value per type (a DataLoader by its address).
Data(data, type, value) == Insert(data, type, value)

\* add_data_loaders: one DataLoader::new per loader type, then the database.
RECURSIVE AttachLoaders(_, _, _, _)
AttachLoaders(loaders, data, h, database) ==
    IF loaders = <<>> THEN [data |-> Data(data, "DatabaseConnection", database), heap |-> h]
    ELSE LET inst == DataLoader_new(Head(loaders), database)
             h2 == Append(h, inst)
         IN  AttachLoaders(Tail(loaders), Data(data, Head(loaders), Len(h2)), h2, database)

\* An add_data_loaders over loaders built once and kept by the handler
add_data_loaders_shared(h, database) ==
    IF h = <<>> THEN AttachLoaders(DataLoaders, EmptyMap, h, database)
    ELSE [data |-> Data([type \in Range(DataLoaders) |->
                            CHOOSE a \in 1..Len(DataLoaders) : DataLoaders[a] = type],
                        "DatabaseConnection", database),
          heap |-> h]

\* An add_data_loaders that builds the loaders on a connection of its own
add_data_loaders_own_connection(h, database) ==
    AttachLoaders(DataLoaders, EmptyMap, h, "another connection")

add_data_loaders(h, database) == AttachLoaders(DataLoaders, EmptyMap, h, database)

\* ctx.data_unchecked::<DataLoader<T>>(): the value of the type, or a panic.
HasData(data, type) == type \in DOMAIN data

(***************************************************************************)
(* The resolvers that go through a loader, and the key each registers.     *)
(***************************************************************************)
Fields ==
    {"processed_data", "processing_jobs", "auto_proc_integration", "auto_proc",
     "overall", "inner_shell", "outer_shell"}

\* The loader-backed fields of DataCollection, the object the root query returns.
DataCollectionFields == {"processed_data", "processing_jobs", "auto_proc_integration"}

LoaderOf(field) ==
    CASE field = "processed_data" -> "ProcessedDataLoader"
      [] field = "processing_jobs" -> "ProcessJobDataLoader"
      [] field = "auto_proc_integration" -> "AutoProcIntegrationDataLoader"
      [] field = "auto_proc" -> "AutoProcessingDataLoader"
      [] field \in {"overall", "inner_shell", "outer_shell"} -> "AutoProcScalingDataLoader"

StatisticsOf(field) ==
    CASE field = "overall" -> "StatisticsType::Overall"
      [] field = "inner_shell" -> "StatisticsType::InnerShell"
      [] field = "outer_shell" -> "StatisticsType::OuterShell"

\* The objects a field is resolved on.
ParentsOf(field) ==
    CASE field \in {"processed_data", "processing_jobs", "auto_proc_integration"} ->
            {[id |-> k] : k \in Keys}
      [] field = "auto_proc" ->
            {[auto_proc_integration |-> [auto_proc_program_id |-> o]] : o \in OptionOf(Keys)}
      [] OTHER ->
            {[auto_proc_scaling |-> o]
                : o \in OptionOf({[auto_proc_scaling_id |-> 1, auto_proc_id |-> i]
                                    : i \in OptionOf(Keys)})}

\* The key the resolver passes to load_one; None where the resolver's unwrap() panics.
KeyOf(field, parent) ==
    CASE field \in {"processed_data", "processing_jobs", "auto_proc_integration"} ->
            Some(parent.id)
      [] field = "auto_proc" -> parent.auto_proc_integration.auto_proc_program_id
      [] OTHER ->
            IF ~IsSome(parent.auto_proc_scaling) THEN None
            ELSE IF ~IsSome(Unwrap(parent.auto_proc_scaling).auto_proc_id) THEN None
            ELSE Some(<< Unwrap(Unwrap(parent.auto_proc_scaling).auto_proc_id),
                         StatisticsOf(field) >>)

(***************************************************************************)
(* Spec: requests are handled, their resolvers register keys, the delay    *)
(* tasks take the pending batches and the fetchers answer them.            *)
(***************************************************************************)
\* The store the requests are served from: rows under key 1, none under the others.
SampleStore ==
    [data_collection_file_attachment |->
        << [data_collection_file_attachment_id |-> 1, data_collection_id |-> 1,
            file_full_path |-> FilePath(1)] >>,
     processing_job |-> << [processing_job_id |-> 1, data_collection_id |-> Some(1)] >>,
     processing_job_parameter |-> <<>>,
     auto_proc_integration |->
        << [auto_proc_integration_id |-> 1, data_collection_id |-> 1,
            auto_proc_program_id |-> Some(1)] >>,
     auto_proc_program |-> << [auto_proc_program_id |-> 1] >>,
     auto_proc |-> << [auto_proc_id |-> 1, auto_proc_program_id |-> Some(1)] >>,
     auto_proc_scaling |-> << [auto_proc_scaling_id |-> 1, auto_proc_id |-> Some(1)] >>,
     auto_proc_scaling_statistics |->
        << [auto_proc_scaling_statistics_id |-> 1, auto_proc_scaling_id |-> Some(1),
            scaling_statistics_type |-> "overall"] >>]

Active(r) == reqState[r] = "active"
Panicked == {"panic_no_data", "panic_unwrap_none", "panic_recv"}

Init ==
    /\ db = SampleStore
    /\ fetched = NoFetch
    /\ reqState = [r \in Requests |-> "new"]
    /\ ctx = [r \in Requests |-> EmptyMap]
    /\ heap = <<>>
    /\ tasks = <<>>
    /\ fetches = <<>>
    /\ entities = [r \in Requests |-> {}]
    /\ urls = <<>>
    /\ main = <<>>

\* GraphQLHandler::call, the body was extracted: the loaders are attached and the
\* executor starts on the request.
CallOk(r) ==
    /\ reqState[r] = "new"
    /\ \A p \in Requests : p < r => reqState[p] # "new"
    /\ LET a == add_data_loaders(heap, "database")
       IN  /\ heap' = a.heap
           /\ ctx' = [ctx EXCEPT ![r] = a.data]
           /\ fetches' = [i \in 1..Len(a.heap) |->
                             IF i \in DOMAIN fetches THEN fetches[i] ELSE <<>>]
    /\ reqState' = [reqState EXCEPT ![r] = "active"]
    /\ UNCHANGED <<db, entities, urls, main, fetched, tasks>>

\* GraphQLHandler::call, the extraction failed: 400 Bad Request.
CallErr(r) ==
    /\ reqState[r] = "new"
    /\ \A p \in Requests : p < r => reqState[p] # "new"
    /\ reqState' = [reqState EXCEPT ![r] = "rejected"]
    /\ UNCHANGED <<db, entities, urls, main, fetched, ctx, heap, tasks, fetches>>

\* A dropped request future whose receivers stay alive
DropWaiting_keeps_receivers(ts, r) == ts

\* The futures of a request that ends without a response are dropped.
DropWaiting(ts, r) ==
    [t \in DOMAIN ts |->
        IF ts[t].req = r /\ ts[t].state = "waiting"
        THEN [ts[t] EXCEPT !.state = "dropped"] ELSE ts[t]]

\* Whether `key` has been loaded with a value by the loader at `a`.
Resolved(a, key) ==
    \E i \in DOMAIN fetches[a] :
        /\ fetches[a][i].state = "loaded"
        /\ fetches[a][i].result.tag = "Ok"
        /\ key \in DOMAIN fetches[a][i].result.map

\* A resolver runs to its `loader.load_one(key).await`.
Resolve(r, field, parent) ==
    /\ Active(r)
    /\ Len(tasks) < MaxTasks
    /\ LET type == LoaderOf(field)
           key == KeyOf(field, parent)
       IN  IF ~HasData(ctx[r], type)
           THEN /\ reqState' = [reqState EXCEPT ![r] = "panic_no_data"]
                /\ tasks' = DropWaiting(tasks, r)
                /\ UNCHANGED <<heap, fetches>>
           ELSE IF ~IsSome(key)
           THEN /\ reqState' = [reqState EXCEPT ![r] = "panic_unwrap_none"]
                /\ tasks' = DropWaiting(tasks, r)
                /\ UNCHANGED <<heap, fetches>>
           ELSE LET a == ctx[r][type]
                    inst == heap[a]
                    k == Unwrap(key)
                    t == Len(tasks) + 1
                    cached == CacheGet(inst, k)
                    queued == Enqueue(inst, k, t)
                    action == ActionOf(queued, Cardinality(inst.keys))
                    started == [queued EXCEPT !.ticks = @ + 1,
                                              !.timers = @ \cup {queued.ticks + 1}]
                    task == [req |-> r, field |-> field, parent |-> parent, key |-> k,
                             loader |-> a, hit |-> Resolved(a, k)]
                IN  /\ UNCHANGED reqState
                    /\ IF IsSome(cached)
                       THEN /\ tasks' = Append(tasks,
                                   task @@ [tick |-> inst.ticks, state |-> "done",
                                            queued |-> FALSE,
                                            result |-> [tag |-> "Ok", value |-> cached]])
                            /\ UNCHANGED <<heap, fetches>>
                       ELSE /\ heap' = [heap EXCEPT ![a] =
                                   CASE action = "ImmediateLoad" -> Take(queued)
                                     [] action = "StartFetch" -> started
                                     [] action = "Delay" -> queued]
                            /\ fetches' = IF action = "ImmediateLoad"
                                          THEN [fetches EXCEPT ![a] =
                                                   Append(@, Batch(queued, queued.ticks))]
                                          ELSE fetches
                            /\ tasks' = Append(tasks,
                                   task @@ [tick |-> heap'[a].ticks, state |-> "waiting",
                                            queued |-> TRUE,
                                            result |-> [tag |-> "Pending"]])
    /\ UNCHANGED <<db, entities, urls, main, fetched, ctx>>

\* The delay task spawned at tick n wakes up, takes what is pending and, unless
\* that is nothing, calls do_load.
TimerFire(a, n) ==
    /\ n \in heap[a].timers
    /\ heap' = [heap EXCEPT ![a] = [Take(@) EXCEPT !.timers = @ \ {n}]]
    /\ fetches' = IF heap[a].keys # {}
                  THEN [fetches EXCEPT ![a] = Append(@, Batch(heap[a], n))]
                  ELSE fetches
    /\ UNCHANGED <<db, entities, urls, main, fetched, reqState, ctx, tasks>>

\* The tasks the batch's senders belong to that still wait on their receivers.
Waiting(batch) ==
    {batch.senders[j].sender : j \in DOMAIN batch.senders}
        \cap {t \in DOMAIN tasks : tasks[t].state = "waiting"}

\* do_load: Loader::load returns and every sender is sent its share; a panic in
\* load drops the senders, and `rx.await.unwrap()` panics in each waiting resolver.
LoadComplete(a, i) ==
    /\ fetches[a][i].state = "loading"
    /\ \E q \in QueryOutcomes, decodes \in BOOLEAN :
          LET batch == fetches[a][i]
              result == Load(heap[a].loader, db, batch.keys, q, decodes)
              hurt == {tasks[t].req : t \in Waiting(batch)}
          IN  /\ heap[a].loader # "AutoProcIntegrationDataLoader" => decodes
              /\ fetches' = [fetches EXCEPT ![a][i].state = "loaded",
                                            ![a][i].result = result]
              /\ IF result.tag = "Panic"
                 THEN /\ reqState' = [r \in Requests |->
                                         IF r \in hurt THEN "panic_recv" ELSE reqState[r]]
                      /\ tasks' = [t \in DOMAIN tasks |->
                                      IF tasks[t].req \in hurt /\ tasks[t].state = "waiting"
                                      THEN [tasks[t] EXCEPT !.state = "dropped"]
                                      ELSE tasks[t]]
                      /\ UNCHANGED heap
                 ELSE /\ tasks' = [t \in DOMAIN tasks |->
                                      IF t \in Waiting(batch)
                                      THEN [tasks[t] EXCEPT
                                               !.state = "done",
                                               !.result = LoadOne(result, tasks[t].key)]
                                      ELSE tasks[t]]
                      /\ heap' = IF result.tag = "Ok"
                                 THEN [heap EXCEPT ![a].cache_storage =
                                          CacheInsertAll(heap[a], result.map)]
                                 ELSE heap
                      /\ UNCHANGED reqState
    /\ UNCHANGED <<db, entities, urls, main, fetched, ctx>>

\* The executor has resolved every field: the response is returned.
Finish(r) ==
    /\ Active(r)
    /\ \A t \in DOMAIN tasks : tasks[t].req = r => tasks[t].state # "waiting"
    /\ reqState' = [reqState EXCEPT ![r] = "done"]
    /\ UNCHANGED <<db, entities, urls, main, fetched, ctx, heap, tasks, fetches>>

Next ==
    \/ \E r \in Requests : CallOk(r)
    \/ \E r \in Requests : CallErr(r)
    \/ \E r \in Requests, field \in DataCollectionFields : \E parent \in ParentsOf(field) :
          Resolve(r, field, parent)
    \/ \E a \in DOMAIN heap : \E n \in heap[a].timers : TimerFire(a, n)
    \/ \E a \in DOMAIN heap : \E i \in DOMAIN fetches[a] : LoadComplete(a, i)
    \/ \E r \in Requests : Finish(r)

Spec == Init /\ [][Next]_vars

(***************************************************************************)
(* QuerySpec: one request from the gateway.  The entity resolver returns   *)
(* DataCollection stubs, their fields are resolved through the loaders and *)
(* download_url is resolved on the DataProcessing values delivered.        *)
(***************************************************************************)
\* main, Cli::Serve: the data attached to the schema
SchemaData == {"DatabaseConnection", "aws_sdk_s3::Client", "S3Bucket"}

\* ctx.data::<T>(): the request's data, then the schema's; an error when neither has it
CtxData(data, type) == type \in DOMAIN data \/ type \in SchemaData

\* DataProcessing::object_key
object_key(self) == self.file_full_path

\* A validity window of one hour
expires_in_one_hour == 60 * 60

\* PresigningConfig::expires_in(Duration::from_secs(10 * 60))
expires_in == 10 * 60

\* What the presigner and Url::parse do with a request.
SignOutcomes == {"ok", "SdkError", "ParseError"}

\* DataProcessing::download_url: the presigner calls it makes and what it returns.
download_url(self, data, outcome) ==
    IF ~CtxData(data, "aws_sdk_s3::Client")
    THEN [calls |-> <<>>, result |-> Err("Data aws_sdk_s3::Client does not exist.")]
    ELSE IF ~CtxData(data, "S3Bucket")
    THEN [calls |-> <<>>, result |-> Err("Data S3Bucket does not exist.")]
    ELSE LET call == [bucket |-> "S3Bucket", key |-> object_key(self),
                      expires_in |-> expires_in]
         IN  [calls |-> <<call>>,
              result |-> IF outcome = "ok"
                         THEN [tag |-> "Ok", url |-> <<"https://", call.bucket, call.key>>]
                         ELSE Err(outcome)]

\* An entity resolver that fills in a default id
router_data_collection_default(id) == [id |-> 0]

\* Query::router_data_collection
router_data_collection(id) == [id |-> id]

\* The request this specification follows.
QueryRequests == {1}

\* The fields of DataCollection a query of this specification selects.
QueryFields == {"processed_data", "processing_jobs"}

\* The representation of a Datasets entity sent by the gateway is resolved to a stub.
RouterDataCollection(r, id) ==
    /\ Active(r)
    /\ entities' = [entities EXCEPT ![r] =
                       @ \cup {[representation |-> id, stub |-> router_data_collection(id)]}]
    /\ UNCHANGED <<db, fetched, reqState, ctx, heap, tasks, fetches, urls, main>>

\* download_url is resolved on the DataProcessing delivered to task t.
DownloadUrl(r, t, outcome) ==
    /\ Active(r)
    /\ Len(urls) < MaxUrls
    /\ tasks[t].req = r
    /\ tasks[t].field = "processed_data"
    /\ tasks[t].state = "done"
    /\ tasks[t].result.tag = "Ok"
    /\ IsSome(tasks[t].result.value)
    /\ LET self == Unwrap(tasks[t].result.value)
           d == download_url(self, ctx[r], outcome)
       IN  urls' = Append(urls, [req |-> r, task |-> t, self |-> self,
                                 calls |-> d.calls, result |-> d.result])
    /\ UNCHANGED <<db, fetched, reqState, ctx, heap, tasks, fetches, entities, main>>

QueryNext ==
    \/ \E r \in QueryRequests : CallOk(r)
    \/ \E r \in QueryRequests, id \in Keys : RouterDataCollection(r, id)
    \/ \E r \in QueryRequests, field \in QueryFields : \E e \in entities[r] :
          Resolve(r, field, e.stub)
    \/ \E a \in DOMAIN heap : \E n \in heap[a].timers : TimerFire(a, n)
    \/ \E a \in DOMAIN heap : \E i \in DOMAIN fetches[a] : LoadComplete(a, i)
    \/ \E r \in QueryRequests, t \in DOMAIN tasks, outcome \in SignOutcomes :
          DownloadUrl(r, t, outcome)
    \/ \E r \in QueryRequests : Finish(r)

QuerySpec == Init /\ [][QueryNext]_vars

\* The value null of a response.
Null == [tag |-> "Null"]

\* The resolutions of download_url selected on the DataProcessing of task t.
DownloadUrlsOf(t) == {i \in DOMAIN urls : urls[i].task = t}

\* The container DataProcessing resolved with its selection: id and the selected
\* download_url fields, all non-null; the error of one of them fails the container.
DataProcessing_resolve(self, t) ==
    LET failed == {i \in DownloadUrlsOf(t) : urls[i].result.tag = "Err"}
    IN  IF failed # {}
        THEN [tag |-> "Err", errors |-> {urls[i].result.err : i \in failed}]
        ELSE [tag |-> "Ok",
              value |-> [id |-> self.id,
                         download_url |-> {urls[i].result.url : i \in DownloadUrlsOf(t)}]]

\* Option<T> resolved as an output: None is null; the error of the inner value is
\* added to the response's errors and the value is null.
Option_resolve(option, t) ==
    IF ~IsSome(option) THEN [value |-> Null, errors |-> {}]
    ELSE LET inner == DataProcessing_resolve(Unwrap(option), t)
         IN  IF inner.tag = "Err" THEN [value |-> Null, errors |-> inner.errors]
             ELSE [value |-> inner.value, errors |-> {}]

\* What the response holds for the processed_data field task t resolved with Ok.
processed_data_value(t) == Option_resolve(tasks[t].result.value, t)

(***************************************************************************)
(* NestedSpec: one request in which the resolvers of AutoProcessing and    *)
(* AutoProcess run on the objects their parent hands them.                 *)
(***************************************************************************)
\* The loader-backed fields of AutoProcessing and AutoProcess.
NestedFields == {"auto_proc", "overall", "inner_shell", "outer_shell"}

NestedNext ==
    \/ \E r \in QueryRequests : CallOk(r)
    \/ \E r \in QueryRequests, field \in NestedFields : \E parent \in ParentsOf(field) :
          Resolve(r, field, parent)
    \/ \E a \in DOMAIN heap : \E n \in heap[a].timers : TimerFire(a, n)
    \/ \E a \in DOMAIN heap : \E i \in DOMAIN fetches[a] : LoadComplete(a, i)
    \/ \E r \in QueryRequests : Finish(r)

NestedSpec == Init /\ [][NestedNext]_vars

\* C16: not found is never an error in nested resolution.  No resolver of overall,
\* inner_shell, outer_shell or auto_proc ends the request by unwrapping an absent
\* scaling row or an absent id: the request stays in execution or is answered.
C16_AbsentIdIsNone ==
    \A r \in Requests : reqState[r] # "panic_unwrap_none"

(***************************************************************************)
(* MainSpec: the process, from the parsed command line to its end.         *)
(***************************************************************************)
\* Cli
Commands == {"Serve", "Schema"}

\* SchemaArgs::path
Paths == {"schema.graphql", "out.graphql"}

\* ServeArgs::port, with its default
Ports == {80, 8000}

\* ServeArgs::log_level, with its default
LogLevels == {"INFO", "DEBUG"}

\* ServeArgs::otel_collector_url
OtelUrls == {"http://otel:4317"}

\* What a file holds before the process starts: nothing (no file) or an older,
\* plain SDL.
OldSdl == [sdl_of |-> "OldQuery", federation |-> FALSE]
FileContents == {<<>>, <<OldSdl>>}

\* Schema::sdl_with_options(SDLExportOptions::new().federation()) of a schema
sdl_with_options(schema) == [sdl_of |-> schema.root, federation |-> TRUE]

\* A Schema command that prints whatever it is given
Destination_stdout(path) == [kind |-> "stdout"]

\* Where the Schema command writes: `if let Some(path) = args.path`
Destination(path) ==
    IF IsSome(path) THEN [kind |-> "file", path |-> Unwrap(path)]
    ELSE [kind |-> "stdout"]

\* The first statement of each arm of `match args`
FirstStep(cmd) == IF cmd = "Serve" THEN "setup_telemetry" ELSE "root_schema_builder"

MainInit ==
    /\ db = SampleStore
    /\ fetched = NoFetch
    /\ reqState = [r \in Requests |-> "new"]
    /\ ctx = [r \in Requests |-> EmptyMap]
    /\ heap = <<>>
    /\ tasks = <<>>
    /\ fetches = <<>>
    /\ entities = [r \in Requests |-> {}]
    /\ urls = <<>>
    /\ \E cmd \in Commands, path \in OptionOf(Paths), port \in Ports,
          log_level \in LogLevels, otel \in OptionOf(OtelUrls),
          files \in [Paths -> FileContents] :
          /\ cmd = "Serve" => path = None /\ files = [f \in Paths |-> <<>>]
          /\ cmd = "Schema" => port = 80 /\ log_level = "INFO" /\ otel = None
          /\ main = [cmd |-> cmd, path |-> path, port |-> port, log_level |-> log_level,
                     otel_collector_url |-> otel, pc |-> FirstStep(cmd),
                     events |-> <<>>, schema |-> None, schema_string |-> None,
                     files0 |-> files, files |-> files, stdout |-> <<>>, served |-> 0]

MainAt(cmd, pc) == main.cmd = cmd /\ main.pc = pc

\* setup_telemetry(args.log_level, args.otel_collector_url).unwrap(): only the
\* exporter pipelines, built when a collector is given, can fail.
setup_telemetry(ok) ==
    /\ MainAt("Serve", "setup_telemetry")
    /\ ~ok => IsSome(main.otel_collector_url)
    /\ main' = IF ok
               THEN [main EXCEPT !.events = Append(@, "telemetry"), !.pc = "setup_database"]
               ELSE [main EXCEPT !.pc = "panicked"]
    /\ UNCHANGED <<db, fetched, reqState, ctx, heap, tasks, fetches, entities, urls>>

\* setup_database(args.database_url).await.unwrap()
setup_database(ok) ==
    /\ MainAt("Serve", "setup_database")
    /\ main' = [main EXCEPT !.events = Append(@, "connect_database"),
                            !.pc = IF ok THEN "root_schema_builder" ELSE "panicked"]
    /\ UNCHANGED <<db, fetched, reqState, ctx, heap, tasks, fetches, entities, urls>>

\* Serve: root_schema_builder().extension(Tracing).data(..).data(..).data(..).finish()
ServeSchema ==
    /\ MainAt("Serve", "root_schema_builder")
    /\ main' = [main EXCEPT !.schema = Some([root |-> "Query", data |-> SchemaData]),
                            !.pc = "setup_router"]
    /\ UNCHANGED <<db, fetched, reqState, ctx, heap, tasks, fetches, entities, urls>>

\* setup_router(schema)
setup_router ==
    /\ MainAt("Serve", "setup_router")
    /\ main' = [main EXCEPT !.events = Append(@, "router"), !.pc = "serve"]
    /\ UNCHANGED <<db, fetched, reqState, ctx, heap, tasks, fetches, entities, urls>>

\* serve(router, args.port).await.unwrap(), up to axum::serve
serve(ok) ==
    /\ MainAt("Serve", "serve")
    /\ main' = IF ok
               THEN [main EXCEPT !.events = Append(@, "bind"),
                                 !.stdout = Append(@, [line |-> "GraphiQL IDE",
                                                       port |-> main.port]),
                                 !.pc = "serving"]
               ELSE [main EXCEPT !.events = Append(@, "bind"), !.pc = "panicked"]
    /\ UNCHANGED <<db, fetched, reqState, ctx, heap, tasks, fetches, entities, urls>>

\* axum::serve(listener, ..): a request is served
Serving ==
    /\ MainAt("Serve", "serving")
    /\ main.served < MaxServed
    /\ main' = [main EXCEPT !.served = @ + 1]
    /\ UNCHANGED <<db, fetched, reqState, ctx, heap, tasks, fetches, entities, urls>>

\* Schema: root_schema_builder().finish()
SchemaSchema ==
    /\ MainAt("Schema", "root_schema_builder")
    /\ main' = [main EXCEPT !.schema = Some([root |-> "Query", data |-> {}]),
                            !.pc = "sdl_with_options"]
    /\ UNCHANGED <<db, fetched, reqState, ctx, heap, tasks, fetches, entities, urls>>

\* let schema_string = schema.sdl_with_options(..); if let Some(path) = args.path
SchemaString ==
    /\ MainAt("Schema", "sdl_with_options")
    /\ main' = [main EXCEPT !.schema_string = Some(sdl_with_options(Unwrap(main.schema))),
                            !.pc = IF Destination(main.path).kind = "file"
                                   THEN "File::create" ELSE "println"]
    /\ UNCHANGED <<db, fetched, reqState, ctx, heap, tasks, fetches, entities, urls>>

\* File::create(path).unwrap(): the file is created or truncated
FileCreate(ok) ==
    /\ MainAt("Schema", "File::create")
    /\ main' = IF ok
               THEN [main EXCEPT !.files[Destination(main.path).path] = <<>>,
                                 !.events = Append(@, "create"),
                                 !.pc = "write_all"]
               ELSE [main EXCEPT !.pc = "panicked"]
    /\ UNCHANGED <<db, fetched, reqState, ctx, heap, tasks, fetches, entities, urls>>

\* file.write_all(schema_string.as_bytes()).unwrap()
WriteAll(ok) ==
    /\ MainAt("Schema", "write_all")
    /\ main' = IF ok
               THEN [main EXCEPT !.files[Destination(main.path).path] =
                                     <<Unwrap(main.schema_string)>>,
                                 !.events = Append(@, "write_sdl"),
                                 !.pc = "returned"]
               ELSE [main EXCEPT !.pc = "panicked"]
    /\ UNCHANGED <<db, fetched, reqState, ctx, heap, tasks, fetches, entities, urls>>

\* println!("{}", schema_string)
Println(ok) ==
    /\ MainAt("Schema", "println")
    /\ main' = IF ok
               THEN [main EXCEPT !.stdout = Append(@, Unwrap(main.schema_string)),
                                 !.events = Append(@, "write_sdl"),
                                 !.pc = "returned"]
               ELSE [main EXCEPT !.pc = "panicked"]
    /\ UNCHANGED <<db, fetched, reqState, ctx, heap, tasks, fetches, entities, urls>>

MainNext ==
    \/ \E ok \in BOOLEAN : setup_telemetry(ok)
    \/ \E ok \in BOOLEAN : setup_database(ok)
    \/ ServeSchema
    \/ setup_router
    \/ \E ok \in BOOLEAN : serve(ok)
    \/ Serving
    \/ SchemaSchema
    \/ SchemaString
    \/ \E ok \in BOOLEAN : FileCreate(ok)
    \/ \E ok \in BOOLEAN : WriteAll(ok)
    \/ \E ok \in BOOLEAN : Println(ok)

MainSpec == MainInit /\ [][MainNext]_vars

(***************************************************************************)
(* CancelSpec: requests whose future can be dropped while they execute     *)
(* (the client went away), with the tasks their loaders spawned running on.*)
(***************************************************************************)
\* The future GraphQLHandler::call returned is dropped: the resolvers of the request
\* and their receivers go with it; the delay tasks and the do_load calls, spawned
\* with tokio::spawn, are not touched.
Cancel(r) ==
    /\ Active(r)
    /\ reqState' = [reqState EXCEPT ![r] = "cancelled"]
    /\ tasks' = DropWaiting(tasks, r)
    /\ UNCHANGED <<db, entities, urls, main, fetched, ctx, heap, fetches>>

CancelNext ==
    \/ \E r \in Requests : CallOk(r)
    \/ \E r \in Requests, field \in QueryFields : \E parent \in ParentsOf(field) :
          Resolve(r, field, parent)
    \/ \E a \in DOMAIN heap : \E n \in heap[a].timers : TimerFire(a, n)
    \/ \E a \in DOMAIN heap : \E i \in DOMAIN fetches[a] : LoadComplete(a, i)
    \/ \E r \in Requests : Finish(r)
    \/ \E r \in Requests : Cancel(r)

CancelSpec == Init /\ [][CancelNext]_vars

\* The first separator of a stored path is stripped, if it is there.
StripLeadingSeparator(path) ==
    IF path # <<>> /\ Head(path) = "/" THEN Tail(path) ELSE path

\* C11: object key rule.  The key of every presigner call is the stored path of the
\* row without its leading separator, so no key starts with a separator.
C11_ObjectKeyRule ==
    \A i \in DOMAIN urls : \A c \in DOMAIN urls[i].calls :
        /\ urls[i].calls[c].key = StripLeadingSeparator(urls[i].self.file_full_path)
        /\ Head(urls[i].calls[c].key) # "/"

\* C12: reference stub minimalism.  Every stub the entity resolver returned carries
\* the id it was given and nothing else; resolving a reference changes no loader, no
\* batch and no task; and every key a fetcher was invoked with was registered by a
\* field resolver on a stub of this request.
C12_StubIsPure ==
    /\ \A r \in Requests : \A e \in entities[r] :
          e.stub.id = e.representation /\ DOMAIN e.stub = {"id"}
    /\ \A a \in DOMAIN fetches : \A i \in DOMAIN fetches[a] :
          \A k \in fetches[a][i].keys :
             \E t \in DOMAIN tasks :
                /\ tasks[t].loader = a /\ tasks[t].key = k /\ tasks[t].queued
                /\ \E e \in entities[tasks[t].req] : e.representation = k
    /\ (tasks = <<>>) =>
          \A a \in DOMAIN heap : heap[a].keys = {} /\ heap[a].timers = {} /\ fetches[a] = <<>>

C12_Witness ==
    /\ \E e \in entities[1] : e.representation = 2
    /\ \E e \in entities[1] : e.representation = 1
    /\ tasks = <<>>
    /\ \A a \in DOMAIN heap : heap[a].keys = {} /\ fetches[a] = <<>>
    /\ DOMAIN heap # {}

(***************************************************************************)
(* Properties of the collectors.                                           *)
(***************************************************************************)
\* The tasks whose senders a batch holds.
SendersOf(batch) == {batch.senders[j].sender : j \in DOMAIN batch.senders}

\* The keys registered on the loader at `a` during the delay window of tick n.
Registered(a, n) ==
    {tasks[t].key : t \in {u \in DOMAIN tasks : /\ tasks[u].loader = a
                                                 /\ tasks[u].queued
                                                 /\ tasks[u].tick = n}}

\* The calls of Loader::load made for the delay window of tick n.
BatchesAt(a, n) == {i \in DOMAIN fetches[a] : fetches[a][i].tick = n}

\* The loader instances attached to request r.
LoadersIn(r) == {ctx[r][type] : type \in (DOMAIN ctx[r]) \cap LoaderKinds}

\* What Loader::load returned for the batch task t is part of, once it has returned.
LoadedResultOf(t) ==
    LET a == tasks[t].loader
        I == {i \in DOMAIN fetches[a] : /\ fetches[a][i].state = "loaded"
                                         /\ t \in SendersOf(fetches[a][i])}
    IN  IF I = {} THEN [tag |-> "None"] ELSE fetches[a][CHOOSE i \in I : TRUE].result

\* The request of task t ended in a panic.
Aborted(t) == reqState[tasks[t].req] \in Panicked

C2_CacheIdempotence ==
    \A t \in DOMAIN tasks :
        tasks[t].hit =>
            /\ ~tasks[t].queued
            /\ Cardinality({i \in DOMAIN fetches[tasks[t].loader]
                               : tasks[t].key \in fetches[tasks[t].loader][i].keys}) <= 1

\* C3: every pending request is satisfied.  Once the fetch of a batch is over, every
\* caller whose key is in the batch has been completed with a value, an absence
\* marker or a failure.
C3_EverySenderSatisfied ==
    \A a \in DOMAIN heap : \A i \in DOMAIN fetches[a] :
        fetches[a][i].state = "loaded" =>
            \A t \in SendersOf(fetches[a][i]) :
                /\ tasks[t].state = "done"
                /\ tasks[t].result.tag \in {"Ok", "Err"}

\* C4: absence mapping.  When load returned Ok for a batch and the map has no entry
\* for a key of the batch, every caller of that key whose request is still being
\* executed has received Ok(None): no error, and no caller is left without a result.
C4_AbsenceMapping ==
    \A a \in DOMAIN heap : \A i \in DOMAIN fetches[a] :
        (fetches[a][i].state = "loaded" /\ fetches[a][i].result.tag = "Ok") =>
            \A t \in SendersOf(fetches[a][i]) :
                (tasks[t].key \notin DOMAIN fetches[a][i].result.map /\ ~Aborted(t)) =>
                    /\ tasks[t].state = "done"
                    /\ tasks[t].result = [tag |-> "Ok", value |-> None]

\* C4's case: a batch of keys 1 and 2 whose map has an entry for 1 only; the caller
\* of 2 got None and the caller of 1 its value.
C4_Witness ==
    \E a \in DOMAIN heap : \E i \in DOMAIN fetches[a] :
        /\ fetches[a][i].state = "loaded"
        /\ fetches[a][i].result.tag = "Ok"
        /\ fetches[a][i].keys = {1, 2}
        /\ DOMAIN fetches[a][i].result.map = {1}
        /\ \E t, u \in SendersOf(fetches[a][i]) :
              /\ tasks[t].key = 2
              /\ tasks[t].result = [tag |-> "Ok", value |-> None]
              /\ tasks[u].key = 1
              /\ tasks[u].result = [tag |-> "Ok",
                                    value |-> Some(fetches[a][i].result.map[1])]

\* C5: one failure for the whole batch.  When load returned Err(e) for a batch,
\* no caller of the batch has anything but Err(e), and every caller whose request is
\* still being executed has received it.
C5_UniformFailure ==
    \A a \in DOMAIN heap : \A i \in DOMAIN fetches[a] :
        (fetches[a][i].state = "loaded" /\ fetches[a][i].result.tag = "Err") =>
            \A t \in SendersOf(fetches[a][i]) :
                /\ tasks[t].state = "done" =>
                      tasks[t].result = [tag |-> "Err", err |-> fetches[a][i].result.err]
                /\ ~Aborted(t) => tasks[t].state = "done"

\* C5's case: a failed batch with callers of two different keys, both holding the
\* batch's failure.
C5_Witness ==
    \E a \in DOMAIN heap : \E i \in DOMAIN fetches[a] :
        /\ fetches[a][i].state = "loaded"
        /\ fetches[a][i].result.tag = "Err"
        /\ \E t, u \in SendersOf(fetches[a][i]) :
              /\ tasks[t].key = 1
              /\ tasks[u].key = 2
              /\ tasks[t].result = [tag |-> "Err", err |-> fetches[a][i].result.err]
              /\ tasks[u].result = tasks[t].result

\* C6: partial failure.  Within one request, when the fetch behind a field has
\* failed and the fetch behind a field of another loader has succeeded, the callers
\* of the second have its data.
C6_PartialFailure ==
    \A t, u \in DOMAIN tasks :
        ( /\ tasks[t].req = tasks[u].req
          /\ tasks[t].loader # tasks[u].loader
          /\ LoadedResultOf(t).tag \in {"Err", "Panic"}
          /\ LoadedResultOf(u).tag = "Ok" ) =>
            /\ tasks[u].state = "done"
            /\ tasks[u].result.tag = "Ok"

\* C7: loaders never leak across requests.  No loader instance is attached to two
\* requests; a resolver registers on a loader of its own request; and every sender
\* a loader holds, pending or in a batch, belongs to a resolver of the request the
\* loader is attached to.
C7_NoLeakAcrossRequests ==
    /\ \A r1, r2 \in Requests : r1 # r2 => LoadersIn(r1) \cap LoadersIn(r2) = {}
    /\ \A t \in DOMAIN tasks : tasks[t].loader \in LoadersIn(tasks[t].req)
    /\ \A a \in DOMAIN heap :
          /\ \A j \in DOMAIN heap[a].pending :
                a \in LoadersIn(tasks[heap[a].pending[j].sender].req)
          /\ \A i \in DOMAIN fetches[a] : \A t \in SendersOf(fetches[a][i]) :
                a \in LoadersIn(tasks[t].req)

\* C7's case: two requests register the same key on loaders of the same kind; the
\* first has its value while the second, on its own loader, still waits for a fetch
\* of its own.
C7_Witness ==
    \E t, u \in DOMAIN tasks :
        /\ tasks[t].req = 1
        /\ tasks[u].req = 2
        /\ tasks[t].field = tasks[u].field
        /\ tasks[t].key = tasks[u].key
        /\ tasks[t].loader # tasks[u].loader
        /\ tasks[t].state = "done"
        /\ tasks[t].result.tag = "Ok"
        /\ tasks[u].state = "waiting"
        /\ tasks[u].queued

\* C8: one collector per relationship kind.  A request that reached the executor
\* has each of the five loader kinds attached, five instances were built for it,
\* the instance found under a kind is a loader of that kind, every resolver's lookup
\* succeeds, and the resolvers of one kind in one request are on the same instance.
C8_OneCollectorPerKind ==
    /\ Len(heap) = Cardinality(LoaderKinds)
                      * Cardinality({r \in Requests : reqState[r] \notin {"new", "rejected"}})
    /\ \A r \in Requests :
          reqState[r] \notin {"new", "rejected"} =>
              /\ \A kind \in LoaderKinds :
                    /\ HasData(ctx[r], kind)
                    /\ heap[ctx[r][kind]].loader = kind
              /\ \A field \in Fields : HasData(ctx[r], LoaderOf(field))
              /\ reqState[r] # "panic_no_data"
              /\ \A t \in DOMAIN tasks :
                    tasks[t].req = r => tasks[t].loader = ctx[r][LoaderOf(tasks[t].field)]

\* C8's case: two resolvers of one field on two objects of one request have their
\* senders pending in the same instance, the one attached under the field's kind.
C8_Witness ==
    \E t, u \in DOMAIN tasks :
        /\ t # u
        /\ tasks[t].req = tasks[u].req
        /\ tasks[t].field = tasks[u].field
        /\ tasks[t].key # tasks[u].key
        /\ tasks[t].loader = tasks[u].loader
        /\ tasks[t].loader = ctx[tasks[t].req][LoaderOf(tasks[t].field)]
        /\ {heap[tasks[t].loader].pending[j].sender
               : j \in DOMAIN heap[tasks[t].loader].pending} = {t, u}

\* C13: same key, same value.  A key appears once in the key set of a batch, the
\* callers a batch answers for one key get the same result, and a result delivered
\* for a key that this loader had already resolved with a value equals the result
\* delivered before.
C13_SameKeySameValue ==
    \A t1 \in DOMAIN tasks : \A t2 \in DOMAIN tasks :
        (/\ t1 < t2
         /\ tasks[t1].loader = tasks[t2].loader
         /\ tasks[t1].key = tasks[t2].key
         /\ tasks[t1].state = "done" /\ tasks[t2].state = "done"
         /\ tasks[t1].result.tag = "Ok"
         /\ (tasks[t2].hit \/ tasks[t1].tick = tasks[t2].tick))
        => tasks[t2].result = tasks[t1].result

\* Every registration is in the pending key set of its loader with its sender while
\* the delay window it was made in is open, and in the one batch of that window, with
\* its sender, once the window has closed: no batch leaves before a registration of
\* its window is in, and no registration is in two batches or in none.
TickBarrier ==
    \A t \in DOMAIN tasks :
        tasks[t].queued =>
            LET a == tasks[t].loader
                n == tasks[t].tick
                In == {i \in DOMAIN fetches[a] : t \in SendersOf(fetches[a][i])}
            IN  IF n \in heap[a].timers
                THEN /\ tasks[t].key \in heap[a].keys
                     /\ \E j \in DOMAIN heap[a].pending : heap[a].pending[j].sender = t
                     /\ In = {}
                ELSE /\ In = BatchesAt(a, n)
                     /\ Cardinality(In) = 1
                     /\ \A i \in In : tasks[t].key \in fetches[a][i].keys
                     /\ \A j \in DOMAIN heap[a].pending : heap[a].pending[j].sender # t

\* The registrations made on a loader after a fetch of it had started.
LateCallers ==
    {t \in DOMAIN tasks : /\ tasks[t].queued
                          /\ \E i \in DOMAIN fetches[tasks[t].loader] :
                                fetches[tasks[t].loader][i].tick < tasks[t].tick}

\* C14: tick barrier.  A fetch starts with every registration of its window in its
\* key set; a key registered after a fetch has started is in the batch of a later
\* window, and once that batch has been fetched its caller has a result.
C14_TickBarrier ==
    /\ TickBarrier
    /\ \A t \in LateCallers :
          LoadedResultOf(t).tag # "None" =>
              tasks[t].state = "done" /\ tasks[t].result.tag \in {"Ok", "Err"}

\* The loaders on which some key has been registered.
LoadersUsed == {tasks[t].loader : t \in {u \in DOMAIN tasks : tasks[u].queued}}

\* C15: empty key set.  No call of load is made with an empty key set; a delay task
\* exists only while keys are pending; and a loader on which no key was registered
\* has spawned no delay task and has made no call of load.
C15_NoEmptyFetch ==
    \A a \in DOMAIN heap :
        /\ \A i \in DOMAIN fetches[a] : fetches[a][i].keys # {}
        /\ heap[a].timers # {} => heap[a].keys # {}
        /\ a \notin LoadersUsed =>
              /\ heap[a].ticks = 0 /\ heap[a].timers = {}
              /\ fetches[a] = <<>>

\* C15's case: a request has been answered; one of its loaders fetched a batch, the
\* others were never registered on and never fetched.
C15_Witness ==
    /\ reqState[1] = "done"
    /\ \E a \in LoadersIn(1) : a \in LoadersUsed /\ Len(fetches[a]) = 1
    /\ \E a \in LoadersIn(1) : a \notin LoadersUsed /\ fetches[a] = <<>>
    /\ Cardinality(LoadersUsed) = 1

\* C17: every data-access failure is an error value.  Every call of load that has
\* returned gave Ok or Err, every caller of a failed batch has the batch's error as
\* its result, and no request was ended by a fetcher.
C17_FailureIsErrorValue ==
    /\ \A a \in DOMAIN heap : \A i \in DOMAIN fetches[a] :
          fetches[a][i].state = "loaded" =>
              /\ fetches[a][i].result.tag \in {"Ok", "Err"}
              /\ fetches[a][i].result.tag = "Err" =>
                    \A t \in SendersOf(fetches[a][i]) :
                        tasks[t].result = [tag |-> "Err", err |-> fetches[a][i].result.err]
    /\ \A r \in Requests : reqState[r] # "panic_recv"

\* C18: one presigner call per resolution.  Every resolution of download_url made
\* exactly one presigner call, for the bucket of the schema and the key of its row,
\* valid for 600 seconds, whatever other resolutions were made before it.
C18_OnePresignPerResolution ==
    \A i \in DOMAIN urls :
        /\ Len(urls[i].calls) = 1
        /\ urls[i].calls[1].expires_in = 600
        /\ urls[i].calls[1].key = object_key(urls[i].self)
        /\ urls[i].calls[1].bucket = "S3Bucket"

\* C18's case: download_url resolved twice on the same row in the request, signed
\* both times: two resolutions, each with its own presigner call.
C18_Witness ==
    /\ Len(urls) = 2
    /\ urls[1].self = urls[2].self /\ urls[1].task = urls[2].task
    /\ urls[1].result.tag = "Ok" /\ urls[2].result.tag = "Ok"
    /\ Len(urls[1].calls) = 1 /\ Len(urls[2].calls) = 1

\* C19: a signing failure stays on download_url.  When a resolution of download_url
\* failed, the response still holds the DataProcessing it was resolved on, with its
\* id, and the resolvers of the other fields of the request have their results.
C19_SigningFailureIsLocal ==
    \A i \in DOMAIN urls :
        urls[i].result.tag = "Err" =>
            /\ processed_data_value(urls[i].task).value # Null
            /\ processed_data_value(urls[i].task).value.id = urls[i].self.id
            /\ \A t \in DOMAIN tasks :
                  (tasks[t].req = urls[i].req /\ LoadedResultOf(t).tag \in {"Ok", "Err"}) =>
                      tasks[t].state = "done"

\* What the process has written that is the SDL of the schema.
SdlWrites ==
    {<<"stdout", i>> : i \in {j \in DOMAIN main.stdout : "sdl_of" \in DOMAIN main.stdout[j]}}
        \cup {<<"file", f>> : f \in {g \in Paths : /\ main.files[g] # main.files0[g]
                                                   /\ main.files[g] # <<>>}}

\* C20: schema export mode.  The Schema command connects to no database, builds no
\* router and binds no listener, and when it has returned it has written the SDL
\* once: to the file at the path given, leaving standard output empty, or to standard
\* output when no path was given, leaving every file as it was.  The Serve command
\* writes no SDL anywhere.
C20_SchemaExport ==
    /\ main.cmd = "Schema" =>
          /\ \A i \in DOMAIN main.events :
                main.events[i] \notin {"telemetry", "connect_database", "router", "bind"}
          /\ Cardinality({i \in DOMAIN main.events : main.events[i] = "write_sdl"}) <= 1
          /\ main.pc = "returned" =>
                /\ Cardinality({i \in DOMAIN main.events : main.events[i] = "write_sdl"}) = 1
                /\ IF IsSome(main.path)
                   THEN /\ main.files[Unwrap(main.path)] = <<Unwrap(main.schema_string)>>
                        /\ \A f \in Paths \ {Unwrap(main.path)} : main.files[f] = main.files0[f]
                        /\ main.stdout = <<>>
                        /\ SdlWrites = {<<"file", Unwrap(main.path)>>}
                   ELSE /\ main.stdout = <<Unwrap(main.schema_string)>>
                        /\ main.files = main.files0
                        /\ SdlWrites = {<<"stdout", 1>>}
                /\ Unwrap(main.schema_string).federation
    /\ main.cmd = "Serve" =>
          /\ SdlWrites = {}
          /\ main.files = main.files0
          /\ \A i \in DOMAIN main.events : main.events[i] \notin {"create", "write_sdl"}

\* C20's case: the Schema command was given a path whose file held older content and
\* has returned; the file holds the SDL and nothing went to standard output.
C20_Witness ==
    /\ main.cmd = "Schema" /\ main.pc = "returned"
    /\ main.path = Some("out.graphql")
    /\ main.files0["out.graphql"] = <<OldSdl>>
    /\ main.files["out.graphql"] = <<[sdl_of |-> "Query", federation |-> TRUE]>>
    /\ main.stdout = <<>>

\* The requests that have ended: answered, rejected, cancelled or aborted.
Ended == {r \in Requests : reqState[r] \notin {"new", "active"}}

\* C21: cancellation.  No resolver of a cancelled request waits or is handed anything
\* after the cancellation: a caller that had no result then never gets one, whatever
\* its batch returns.  The batch of every closed delay window is still there, in
\* flight or returned with the outcome of its query.  And nothing of an ended
\* request is reachable by another request: no loader of it is in the data of another
\* request, no sender of another request is held by its loaders, and its loaders
\* keep no resolved value.
C21_Cancellation ==
    /\ \A r \in Requests : reqState[r] = "cancelled" =>
          \A t \in DOMAIN tasks : tasks[t].req = r =>
              /\ tasks[t].state \in {"done", "dropped"}
              /\ tasks[t].state = "dropped" => tasks[t].result = [tag |-> "Pending"]
    /\ \A a \in DOMAIN heap : \A n \in 1..heap[a].ticks :
          n \notin heap[a].timers =>
              /\ Cardinality(BatchesAt(a, n)) = 1
              /\ \A i \in BatchesAt(a, n) :
                    fetches[a][i].state = "loaded" => fetches[a][i].result.tag \in {"Ok", "Err"}
    /\ \A r \in Ended : \A a \in LoadersIn(r) :
          /\ \A p \in Requests \ {r} : a \notin LoadersIn(p)
          /\ heap[a].cache_storage = EmptyMap
          /\ \A t \in DOMAIN tasks : tasks[t].loader = a => tasks[t].req = r
          /\ \A i \in DOMAIN fetches[a] : \A t \in SendersOf(fetches[a][i]) : tasks[t].req = r

\* C21's case: the first request was cancelled with a fetch in flight; the fetch
\* returned its rows and the waiting caller was handed nothing; the second request
\* registered the same key on its own loader and was answered from its own fetch.
C21_Witness ==
    /\ reqState = <<"cancelled", "done">>
    /\ \E a \in LoadersIn(1) : \E i \in DOMAIN fetches[a] :
          /\ fetches[a][i].state = "loaded" /\ fetches[a][i].result.tag = "Ok"
          /\ SendersOf(fetches[a][i]) # {}
          /\ \A t \in SendersOf(fetches[a][i]) :
                tasks[t].state = "dropped" /\ tasks[t].result.tag = "Pending"
          /\ \E u \in DOMAIN tasks :
                /\ tasks[u].req = 2 /\ tasks[u].state = "done" /\ tasks[u].result.tag = "Ok"
                /\ tasks[u].loader # a /\ heap[tasks[u].loader].loader = heap[a].loader
                /\ tasks[u].key \in fetches[a][i].keys

\* The variant's name without its type: Overall, InnerShell, OuterShell.
VariantName(v) ==
    CASE v \in {"StatisticsType::Overall", "ScalingStatisticsType::Overall"} -> "Overall"
      [] v \in {"StatisticsType::InnerShell", "ScalingStatisticsType::InnerShell"} -> "InnerShell"
      [] v \in {"StatisticsType::OuterShell", "ScalingStatisticsType::OuterShell"} -> "OuterShell"

ScalingFields == {"overall", "inner_shell", "outer_shell"}

\* C23: the composite key.  The key a scaling field registers is the id of the
\* scaling row of the AutoProcess it is resolved on with the variant of the field,
\* and a value delivered for a key carries the key's scaling id and variant.
C23_CompositeKey ==
    \A t \in DOMAIN tasks :
        tasks[t].field \in ScalingFields =>
            /\ tasks[t].key = << Unwrap(tasks[t].parent.auto_proc_scaling).auto_proc_scaling_id,
                                 StatisticsOf(tasks[t].field) >>
            /\ (/\ tasks[t].state = "done" /\ tasks[t].result.tag = "Ok"
                /\ IsSome(tasks[t].result.value)) =>
                   /\ Unwrap(tasks[t].result.value).auto_proc_scaling_id = Some(tasks[t].key[1])
                   /\ Unwrap(tasks[t].result.value).scaling_statistics_type = tasks[t].key[2]

\* The requests whose body was extracted and handed to the executor.
Executed == {r \in Requests : reqState[r] \notin {"new", "rejected"}}

\* C24: HTTP handling.  A request whose body could not be extracted is answered
\* (400) with nothing attached to it: no loader was built for it and no resolver of
\* it ever ran.  A request that was extracted got, once, one loader of each type,
\* built on the handler's database handle, and the handle itself, and every resolver
\* of it found its loader among them.
C24_HttpHandling ==
    /\ \A r \in Requests : reqState[r] \in {"new", "rejected"} =>
          /\ ctx[r] = EmptyMap
          /\ \A t \in DOMAIN tasks : tasks[t].req # r
    /\ Len(heap) = Len(DataLoaders) * Cardinality(Executed)
    /\ \A r \in Executed :
          /\ DOMAIN ctx[r] = LoaderKinds \cup {"DatabaseConnection"}
          /\ ctx[r]["DatabaseConnection"] = "database"
          /\ \A type \in LoaderKinds :
                /\ ctx[r][type] \in DOMAIN heap
                /\ heap[ctx[r][type]].loader = type
                /\ heap[ctx[r][type]].database = "database"
          /\ \A type1, type2 \in LoaderKinds : ctx[r][type1] = ctx[r][type2] => type1 = type2
          /\ reqState[r] # "panic_no_data"
          /\ \A t \in DOMAIN tasks : tasks[t].req = r => tasks[t].loader \in LoadersIn(r)

\* C24's case: the first request was rejected, the second was executed and answered
\* with a value from a loader of its own; five loaders were built in all.
C24_Witness ==
    /\ reqState = <<"rejected", "done">>
    /\ ctx[1] = EmptyMap
    /\ Len(heap) = 5
    /\ \E t \in DOMAIN tasks :
          tasks[t].req = 2 /\ tasks[t].state = "done" /\ tasks[t].result.tag = "Ok"

SingleValued == {"ProcessedDataLoader", "AutoProcessingDataLoader", "AutoProcScalingDataLoader"}

\* The key a single-valued fetcher inserts a returned row under.
InsertKeyOf(kind, row) ==
    CASE kind = "ProcessedDataLoader" -> row.data_collection_id
      [] kind = "AutoProcessingDataLoader" -> Unwrap(row[1].auto_proc_program_id)
      [] kind = "AutoProcScalingDataLoader" ->
            << Unwrap(row.auto_proc_scaling_id),
               StatisticsType_from(ScalingStatisticsType_from_literal(
                   row.scaling_statistics_type)) >>

\* The value a single-valued fetcher builds from a returned row.
InsertValueOf(kind, row) ==
    CASE kind = "ProcessedDataLoader" -> DataProcessing_from(row)
      [] kind = "AutoProcessingDataLoader" -> AutoProcess_of(row)
      [] kind = "AutoProcScalingDataLoader" -> AutoProcScalingStatics_from(row)

UnwrapsParentKey ==
    {"ProcessJobDataLoader", "AutoProcessingDataLoader", "AutoProcScalingDataLoader"}

\* The nullable parent key column of a row the store returned to the fetcher.
ParentColumnOf(kind, row) ==
    CASE kind = "ProcessJobDataLoader" -> row[1].data_collection_id
      [] kind = "AutoProcessingDataLoader" -> row[1].auto_proc_program_id
      [] kind = "AutoProcScalingDataLoader" -> row.auto_proc_scaling_id

\* C26: grouping never aborts on a missing parent key.  Whatever the store holds,
\* rows with a NULL parent key included, every row it returns to the membership
\* filter of these fetchers has its parent key, and a fetch whose query succeeded
\* returns its map.
C26_ParentKeyPresent ==
    (fetched.kind \in UnwrapsParentKey /\ fetched.q = "ok")
        => /\ \A i \in DOMAIN fetched.records :
                 IsSome(ParentColumnOf(fetched.kind, fetched.records[i]))
           /\ fetched.result.tag = "Ok"

\* C26's case: the store holds a job without data collection between two jobs of
\* data collection 1; the fetch for key 1 returns the two and does not abort.
C26_Witness ==
    /\ fetched.kind = "ProcessJobDataLoader"
    /\ fetched.q = "ok"
    /\ fetched.keys = {1}
    /\ Len(db.processing_job) = 3
    /\ [i \in 1..3 |-> db.processing_job[i].data_collection_id] = <<Some(1), None, Some(1)>>
    /\ fetched.result.tag = "Ok"
    /\ Len(fetched.result.map[1]) = 2

====
